---- MODULE Spec2Model ----
(***************************************************************************)
(* A model of annotation_converter.py: the conversion of a CVAT annotation *)
(* document (boxes and keypoint skeletons per image) into YOLO pose label  *)
(* files.                                                                  *)
(*                                                                         *)
(* Conventions.                                                            *)
(*  - A number read from an XML attribute or written to a label file is a  *)
(*    rational <<numerator, denominator>> with a positive denominator.     *)
(*    Python's float rounding and the decimal text of str(float) are not   *)
(*    modelled: a written token is the exact value of the quotient.        *)
(*  - A Python variable that may be None is a sequence of length at most   *)
(*    one: <<>> is None and <<v>> is the value v.                          *)
(*  - A file name is a sequence of one-character strings.                  *)
(*  - An XML node has an identity: boxes and skeletons are identified by   *)
(*    their position in the image's node list, keypoints by a node field.  *)
(*  - Every <attribute> element has a text child, every <points> element   *)
(*    has the attributes label, occluded and points (one "x,y" pair), and  *)
(*    every number parses: the exceptions these would raise are left out.  *)
(*  - In the registries, distinct class names have distinct ids.           *)
(***************************************************************************)
EXTENDS Integers, Sequences, FiniteSets, TLC

VARIABLES
    config,      \* the parsed class_configuration.json: a sequence of entries
    images,      \* the <image> nodes of annotations.xml, in document order
    next_image,  \* position of the main loop: index of the next image node
    files,       \* the files of ./out: output name -> written content
    outcomes,    \* what the loop did with each image it reached, in order
    status,      \* "running", "done", "aborted" ("idle": the script is not run)
    call,        \* a single call of one function: its arguments
    ret          \* the call's return value (<<>> while pending)

vars == <<config, images, next_image, files, outcomes, status, call, ret>>

\* ------------------------------------------------------------------ bounds

MaxPoints == 3      \* keypoints per skeleton in the ordering calls
MaxLabel == 4       \* largest keypoint label in the ordering calls
MaxBoxes == 2       \* boxes per image in the correlation calls
MaxSkeletons == 2   \* skeletons per image in the correlation calls
MaxImages == 2      \* images per annotation document

\* ----------------------------------------------------------------- helpers

SeqsUpTo(S, n) == UNION {[1..k -> S] : k \in 0..n}

RECURSIVE Sum(_, _)
Sum(f, S) == IF S = {} THEN 0
             ELSE LET x == CHOOSE y \in S : TRUE IN f[x] + Sum(f, S \ {x})

RECURSIVE Flatten(_)
Flatten(ss) == IF ss = <<>> THEN <<>> ELSE Head(ss) \o Flatten(Tail(ss))

RatEq(a, b) == a[1] * b[2] = b[1] * a[2]

Zero == <<0, 1>>

\* str(i) for a small positive integer i
Str(i) == <<"1", "2", "3", "4", "5", "6", "7", "8", "9">>[i]

\* int(float(s)): Python's int() truncates toward zero
IntFloat(r) == IF r[1] >= 0 THEN r[1] \div r[2] ELSE -((-r[1]) \div r[2])

\* ------------------------------------------------- ConfigurationDetectClasses

\* classes_id after the loop of __init__: a later entry overwrites an earlier
ClassesId(cfg) ==
    [n \in {cfg[k].name : k \in DOMAIN cfg} |->
        LET last == CHOOSE k \in DOMAIN cfg :
                        /\ cfg[k].name = n
                        /\ \A j \in DOMAIN cfg : cfg[j].name = n => j <= k
        IN cfg[last].id]

AmountOfKeypoints(cfg) ==
    [c \in {cfg[k].id : k \in DOMAIN cfg} |->
        LET last == CHOOSE k \in DOMAIN cfg :
                        /\ cfg[k].id = c
                        /\ \A j \in DOMAIN cfg : cfg[j].id = c => j <= k
        IN cfg[last].keypoints_amount]

\* ------------------------------------------------------------ DetectedObject

\* order_points_node_list: for i = 1..length, every node whose label is str(i)
\* (OrderPointsOffByOne is the faulty variant range(1, length), against which
\* C9_InRangeSorted is tested.)
OrderPointsOffByOne(points) ==
    Flatten([i \in 1..(Len(points) - 1) |->
                SelectSeq(points, LAMBDA p : p.label = Str(i))])
OrderPointsNodeList(points) ==
    Flatten([i \in 1..Len(points) |->
                SelectSeq(points, LAMBDA p : p.label = Str(i))])

\* The value of the named <attribute> child: the loops of lines 59-63 and
\* 68-72 keep the last one of that name, None when there is none.
RECURSIVE AttributeValue(_, _)
AttributeValue(attributes, name) ==
    IF attributes = <<>> THEN <<>>
    ELSE LET a == attributes[Len(attributes)] IN
         IF a[1] = name THEN <<a[2]>>
         ELSE AttributeValue(SubSeq(attributes, 1, Len(attributes) - 1), name)

\* line 73: equality of Python values, None = None included
KeysMatch(box, skeleton) ==
    /\ AttributeValue(skeleton.attributes, "class") = AttributeValue(box.attributes, "class")
    /\ AttributeValue(skeleton.attributes, "id") = AttributeValue(box.attributes, "id")

\* class_info.classes_id[self.object_class]: <<id>>, or <<>> for a KeyError
\* (ClassLookupDefault is the faulty variant classes_id.get(object_class, 0),
\* against which C10_LookupFailureAborts is tested.)
ClassLookupDefault(cfg, object_class) ==
    IF object_class # <<>> /\ object_class[1] \in DOMAIN ClassesId(cfg)
    THEN <<ClassesId(cfg)[object_class[1]]>>
    ELSE <<0>>
ClassLookup(cfg, object_class) ==
    IF object_class # <<>> /\ object_class[1] \in DOMAIN ClassesId(cfg)
    THEN <<ClassesId(cfg)[object_class[1]]>>
    ELSE <<>>

\* DetectedObject.__init__ for box b and skeleton s of the node lists:
\* <<object>>, or <<>> when the class lookup of line 42 raises KeyError
NewDetectedObject(boxes, skeletons, b, s, cfg) ==
    LET object_class == AttributeValue(boxes[b].attributes, "class")
        id == ClassLookup(cfg, object_class)
    IN IF id = <<>> THEN <<>>
       ELSE <<[box |-> b, skeleton |-> s,
               bounding_box_node |-> boxes[b],
               points_node_list |-> OrderPointsNodeList(skeletons[s].points),
               object_class |-> object_class[1],
               object_class_id |-> id[1]]>>

\* get_detected_object_list: the pairs (box, skeleton) are visited box by
\* box and, within a box, skeleton by skeleton; pair n of the B*S pairs is
\* box (n-1) \div S + 1 with skeleton (n-1) % S + 1. Every matching pair
\* constructs an object; a KeyError in a constructor ends the call.
RECURSIVE Correlate(_, _, _, _, _)
Correlate(boxes, skeletons, cfg, n, acc) ==
    IF n > Len(boxes) * Len(skeletons) THEN [error |-> FALSE, list |-> acc]
    ELSE LET b == ((n - 1) \div Len(skeletons)) + 1
             s == ((n - 1) % Len(skeletons)) + 1
         IN IF ~KeysMatch(boxes[b], skeletons[s])
            THEN Correlate(boxes, skeletons, cfg, n + 1, acc)
            ELSE LET obj == NewDetectedObject(boxes, skeletons, b, s, cfg)
                 IN IF obj = <<>> THEN [error |-> TRUE, list |-> <<>>]
                    ELSE Correlate(boxes, skeletons, cfg, n + 1, Append(acc, obj[1]))

GetDetectedObjectList(boxes, skeletons, cfg) == Correlate(boxes, skeletons, cfg, 1, <<>>)

\* ------------------------------------------------------- coordinate conversion

\* convert_bounding_box_from_cvat_to_yolo_format
\* (ConvertBoundingBoxNoHalf is the faulty variant with center xtl + w,
\* ytl + h, against which C8_FromTruncatedCorners is tested.)
ConvertBoundingBoxNoHalf(box, width, height) ==
    LET xtl == IntFloat(box.xtl)
        ytl == IntFloat(box.ytl)
        w == IntFloat(box.xbr) - xtl
        h == IntFloat(box.ybr) - ytl
    IN << <<xtl + w, width>>, <<ytl + h, height>>, <<w, width>>, <<h, height>> >>
ConvertBoundingBox(box, width, height) ==
    LET xtl == IntFloat(box.xtl)
        ytl == IntFloat(box.ytl)
        xbr == IntFloat(box.xbr)
        ybr == IntFloat(box.ybr)
        w == xbr - xtl
        h == ybr - ytl
    IN << <<2 * xtl + w, 2 * width>>, <<2 * ytl + h, 2 * height>>,
          <<w, width>>, <<h, height>> >>

\* write_points_of_object: the tokens written for one keypoint node
\* (WritePointsIgnoringOccluded is the faulty variant without the occluded
\* branch, against which C7_FromTruncatedPoint is tested.)
WritePointsIgnoringOccluded(keypoint, width, height) ==
    << <<IntFloat(keypoint.x), width>>, <<IntFloat(keypoint.y), height>>, <<2, 1>> >>
WritePointsOfObject(keypoint, width, height) ==
    IF keypoint.occluded = "1" THEN <<Zero, Zero, Zero>>
    ELSE << <<IntFloat(keypoint.x), width>>, <<IntFloat(keypoint.y), height>>, <<2, 1>> >>

\* ------------------------------------------------------------------- Image

\* re.sub("\..*$", ".txt", name): the match starts at the first '.' of the
\* name and runs to its end; a name without '.' has no match and is unchanged
FirstDot(name) ==
    IF \E k \in DOMAIN name : name[k] = "."
    THEN CHOOSE k \in DOMAIN name :
            name[k] = "." /\ \A j \in 1..(k - 1) : name[j] # "."
    ELSE 0

ImageNameWithTxtExtension(name) ==
    IF FirstDot(name) = 0 THEN name
    ELSE SubSeq(name, 1, FirstDot(name) - 1) \o <<".", "t", "x", "t">>

\* Image.__init__: the fields the loop reads; detected is the outcome of
\* get_detected_object_list (a KeyError leaves the constructor)
Image(image_node, cfg) ==
    [width |-> image_node.width,
     height |-> image_node.height,
     image_name_with_txt_extension |-> ImageNameWithTxtExtension(image_node.name),
     detected |-> GetDetectedObjectList(image_node.boxes, image_node.skeletons, cfg)]

\* ---------------------------------------------------------- the script's loop

\* line 159: image_node.getElementsByTagName('box').length > 0
\* (HasAnnotations is the faulty variant that also accepts an image with
\* skeletons only, against which C6_NoFileWithoutBoxes is tested.)
HasAnnotations(image_node) == Len(image_node.boxes) > 0 \/ Len(image_node.skeletons) > 0
HasBoxes(image_node) == Len(image_node.boxes) > 0

\* lines 168-173 for one index that the loop can serve: the object's own
\* keypoints, or amount_of_keypoints[index] times "0 0 0 "
\* (KeypointBlockOwnAmount is the faulty variant that pads with the count of
\* the object's own class, against which C4_ClassBlocks is tested.)
KeypointBlockOwnAmount(obj, width, height, amount, index) ==
    IF obj.object_class_id = index
    THEN Flatten([m \in DOMAIN obj.points_node_list |->
                    WritePointsOfObject(obj.points_node_list[m], width, height)])
    ELSE [t \in 1..(3 * amount[obj.object_class_id]) |-> Zero]
KeypointBlock(obj, width, height, amount, index) ==
    IF obj.object_class_id = index
    THEN Flatten([m \in DOMAIN obj.points_node_list |->
                    WritePointsOfObject(obj.points_node_list[m], width, height)])
    ELSE [t \in 1..(3 * amount[index]) |-> Zero]

\* lines 167-173: index runs over range(len(amount_of_keypoints)); reading
\* amount_of_keypoints[index] for an index that is no class id is a KeyError,
\* which leaves the tokens written so far
RECURSIVE KeypointBlocks(_, _, _, _, _, _)
KeypointBlocks(obj, width, height, amount, index, written) ==
    IF index >= Cardinality(DOMAIN amount) THEN [error |-> FALSE, tokens |-> written]
    ELSE IF obj.object_class_id # index /\ index \notin DOMAIN amount
         THEN [error |-> TRUE, tokens |-> written]
         ELSE KeypointBlocks(obj, width, height, amount, index + 1,
                             written \o KeypointBlock(obj, width, height, amount, index))

\* lines 164-174: the tokens of one object's line
WriteRow(obj, width, height, cfg) ==
    KeypointBlocks(obj, width, height, AmountOfKeypoints(cfg), 0,
                   <<<<obj.object_class_id, 1>>>>
                   \o ConvertBoundingBox(obj.bounding_box_node, width, height))

\* lines 163-174 for an image: every object's row, in list order
WriteRows(image, cfg) ==
    [n \in DOMAIN image.detected.list |->
        WriteRow(image.detected.list[n], image.width, image.height, cfg)]

\* The loop body on an image without boxes: nothing happens.
SkipImage ==
    /\ status = "running"
    /\ next_image <= Len(images)
    /\ ~HasBoxes(images[next_image])
    /\ next_image' = next_image + 1
    /\ outcomes' = Append(outcomes, "skipped")
    /\ UNCHANGED <<config, images, files, status, call, ret>>

\* The loop body when Image(...) raises KeyError (line 42, reached from line
\* 160): the script ends before line 161 opens the label file.
ClassLookupFailure ==
    /\ status = "running"
    /\ next_image <= Len(images)
    /\ HasBoxes(images[next_image])
    /\ Image(images[next_image], config).detected.error
    /\ status' = "aborted"
    /\ outcomes' = Append(outcomes, "KeyError classes_id")
    /\ UNCHANGED <<config, images, next_image, files, call, ret>>

\* The loop body, lines 160-176, when nothing raises: the label file is
\* opened for writing (created or truncated), one line per object is written,
\* and the file is closed.
WriteLabelFile ==
    /\ status = "running"
    /\ next_image <= Len(images)
    /\ HasBoxes(images[next_image])
    /\ LET image == Image(images[next_image], config)
           rows == WriteRows(image, config)
       IN /\ ~image.detected.error
          /\ \A n \in DOMAIN rows : ~rows[n].error
          /\ files' = (image.image_name_with_txt_extension :>
                          [owner |-> next_image,
                           rows |-> [n \in DOMAIN rows |-> rows[n].tokens],
                           partial |-> <<>>,
                           closed |-> TRUE]) @@ files
    /\ next_image' = next_image + 1
    /\ outcomes' = Append(outcomes, "written")
    /\ UNCHANGED <<config, images, status, call, ret>>

\* The loop body when line 172 raises KeyError in the middle of a row: the
\* file was opened (created or truncated) and is never closed by the script.
\* Whether the buffered lines reach the file when the interpreter exits is
\* not decided by the script: either all that was written, or nothing.
PaddingLookupFailure ==
    /\ status = "running"
    /\ next_image <= Len(images)
    /\ HasBoxes(images[next_image])
    /\ LET image == Image(images[next_image], config)
           rows == WriteRows(image, config)
       IN /\ ~image.detected.error
          /\ \E n \in DOMAIN rows :
                /\ rows[n].error
                /\ \A m \in 1..(n - 1) : ~rows[m].error
                /\ \E flushed \in BOOLEAN :
                     files' = (image.image_name_with_txt_extension :>
                                 [owner |-> next_image,
                                  rows |-> IF flushed THEN [m \in 1..(n - 1) |-> rows[m].tokens]
                                           ELSE <<>>,
                                  partial |-> IF flushed THEN rows[n].tokens ELSE <<>>,
                                  closed |-> FALSE]) @@ files
    /\ status' = "aborted"
    /\ outcomes' = Append(outcomes, "KeyError amount_of_keypoints")
    /\ UNCHANGED <<config, images, next_image, call, ret>>

\* The loop is exhausted: the script ends normally.
Finish ==
    /\ status = "running"
    /\ next_image > Len(images)
    /\ status' = "done"
    /\ UNCHANGED <<config, images, next_image, files, outcomes, call, ret>>

\* --- the inputs of a run

\* class_configuration.json: two classes with ids 0 and 1; the same with ids
\* 0 and 2; one class only
DenseConfig ==
    <<[name |-> "person", id |-> 0, keypoints_amount |-> 2],
      [name |-> "dog", id |-> 1, keypoints_amount |-> 1]>>

SparseConfig ==
    <<[name |-> "person", id |-> 0, keypoints_amount |-> 2],
      [name |-> "dog", id |-> 2, keypoints_amount |-> 1]>>

SingleConfig == <<[name |-> "person", id |-> 0, keypoints_amount |-> 2]>>

Configs == {DenseConfig, SparseConfig, SingleConfig}

Key(class, id) == <<<<"class", class>>, <<"id", id>>>>

PersonBox == [xtl |-> <<10, 1>>, ytl |-> <<10, 1>>, xbr |-> <<30, 1>>, ybr |-> <<50, 1>>,
              attributes |-> Key("person", "1")]
DogBox == [xtl |-> <<81, 2>>, ytl |-> <<60, 1>>, xbr |-> <<90, 1>>, ybr |-> <<100, 1>>,
           attributes |-> Key("dog", "2")]
CatBox == [xtl |-> <<0, 1>>, ytl |-> <<0, 1>>, xbr |-> <<20, 1>>, ybr |-> <<20, 1>>,
           attributes |-> Key("cat", "1")]

Keypoint(label, x, y, occluded) == [label |-> label, x |-> x, y |-> y, occluded |-> occluded]

PersonSkeleton ==
    [attributes |-> Key("person", "1"),
     points |-> <<Keypoint("2", <<101, 2>>, <<20, 1>>, "0"),
                  Keypoint("1", <<10, 1>>, <<40, 1>>, "1")>>]
ShortPersonSkeleton ==
    [attributes |-> Key("person", "1"),
     points |-> <<Keypoint("1", <<12, 1>>, <<44, 1>>, "0")>>]
DogSkeleton ==
    [attributes |-> Key("dog", "2"),
     points |-> <<Keypoint("1", <<85, 1>>, <<70, 1>>, "0")>>]
CatSkeleton ==
    [attributes |-> Key("cat", "1"),
     points |-> <<Keypoint("1", <<5, 1>>, <<5, 1>>, "0")>>]

\* The annotations of one image: its boxes and its skeletons
Annotations ==
    {[boxes |-> <<>>, skeletons |-> <<>>],
     [boxes |-> <<>>, skeletons |-> <<PersonSkeleton>>],
     [boxes |-> <<PersonBox>>, skeletons |-> <<>>],
     [boxes |-> <<PersonBox>>, skeletons |-> <<PersonSkeleton>>],
     [boxes |-> <<PersonBox>>, skeletons |-> <<ShortPersonSkeleton>>],
     [boxes |-> <<PersonBox>>, skeletons |-> <<PersonSkeleton, ShortPersonSkeleton>>],
     [boxes |-> <<DogBox>>, skeletons |-> <<DogSkeleton>>],
     [boxes |-> <<PersonBox, DogBox>>, skeletons |-> <<DogSkeleton, PersonSkeleton>>],
     [boxes |-> <<CatBox>>, skeletons |-> <<CatSkeleton>>],
     [boxes |-> <<PersonBox, CatBox>>, skeletons |-> <<PersonSkeleton, CatSkeleton>>]}

\* Image file names: a.jpg, b.jpg, a.1.jpg, a.2.jpg
Names ==
    {<<"a", ".", "j", "p", "g">>,
     <<"b", ".", "j", "p", "g">>,
     <<"a", ".", "1", ".", "j", "p", "g">>,
     <<"a", ".", "2", ".", "j", "p", "g">>}

ImageNodes ==
    {[name |-> n, width |-> 100, height |-> 200,
      boxes |-> a.boxes, skeletons |-> a.skeletons] : n \in Names, a \in Annotations}

\* annotations.xml: at most MaxImages images, no two of the same name
Documents ==
    {d \in SeqsUpTo(ImageNodes, MaxImages) :
        \A j, k \in DOMAIN d : j # k => d[j].name # d[k].name}

\* The script starts on an empty ./out directory.
Init ==
    /\ config \in Configs
    /\ images \in Documents
    /\ next_image = 1
    /\ files = <<>>
    /\ outcomes = <<>>
    /\ status = "running"
    /\ call = <<>>
    /\ ret = <<>>

Next ==
    \/ SkipImage
    \/ ClassLookupFailure
    \/ WriteLabelFile
    \/ PaddingLookupFailure
    \/ Finish

Spec == Init /\ [][Next]_vars

\* ------------------------------------------------------ single function calls

\* The script is not running while a single function is called.
Idle ==
    /\ config = <<>>
    /\ images = <<>>
    /\ next_image = 0
    /\ files = <<>>
    /\ outcomes = <<>>
    /\ status = "idle"

main_vars == <<config, images, next_image, files, outcomes, status>>

\* A call returns: ret becomes <<value>>.
Return(value) ==
    /\ ret = <<>>
    /\ ret' = <<value>>
    /\ UNCHANGED <<main_vars, call>>

\* --- order_points_node_list on every keypoint list of at most MaxPoints nodes
\* labelled str(1)..str(MaxLabel); node is the identity of the keypoint node.
OrderInputs ==
    {[k \in 1..Len(ls) |-> [label |-> Str(ls[k]), node |-> k]] :
        ls \in SeqsUpTo(1..MaxLabel, MaxPoints)}

InitOrder == Idle /\ ret = <<>> /\ call \in {[points |-> ps] : ps \in OrderInputs}
CallOrder == Return(OrderPointsNodeList(call.points))
SpecOrder == InitOrder /\ [][CallOrder]_vars

\* --- convert_bounding_box_from_cvat_to_yolo_format on boxes with integral,
\* fractional, negative and out-of-image corner attributes
BoxInputs ==
    {[box |-> [xtl |-> xtl, ytl |-> ytl, xbr |-> xbr, ybr |-> ybr],
      width |-> d[1], height |-> d[2]] :
        xtl \in {<<10, 1>>, <<21, 2>>, <<0, 1>>, <<-1, 2>>},
        ytl \in {<<10, 1>>, <<43, 4>>},
        xbr \in {<<30, 1>>, <<61, 2>>, <<150, 1>>},
        ybr \in {<<50, 1>>, <<101, 2>>},
        d \in {<<100, 200>>, <<64, 48>>}}

InitBox == Idle /\ ret = <<>> /\ call \in BoxInputs
CallBox == Return(ConvertBoundingBox(call.box, call.width, call.height))
SpecBox == InitBox /\ [][CallBox]_vars

\* --- write_points_of_object on one keypoint node; ret is what it wrote
PointInputs ==
    {[keypoint |-> [label |-> "1", x |-> x, y |-> y, occluded |-> o],
      width |-> d[1], height |-> d[2]] :
        x \in {<<0, 1>>, <<50, 1>>, <<101, 2>>, <<1999, 20>>, <<120, 1>>},
        y \in {<<20, 1>>, <<41, 2>>, <<3, 4>>},
        o \in {"0", "1"},
        d \in {<<100, 200>>, <<64, 48>>}}

InitPoint == Idle /\ ret = <<>> /\ call \in PointInputs
CallPoint == Return(WritePointsOfObject(call.keypoint, call.width, call.height))
SpecPoint == InitPoint /\ [][CallPoint]_vars

\* --- get_detected_object_list on the boxes and skeletons of one image, with
\* the two-class registry DenseConfig; an annotation is its list of <attribute> children
AttributeLists ==
    {<<>>,
     <<<<"class", "person">>>>,
     <<<<"id", "1">>>>,
     <<<<"class", "person">>, <<"id", "1">>>>,
     <<<<"id", "2">>, <<"class", "person">>>>,
     <<<<"class", "dog">>, <<"id", "1">>>>,
     <<<<"class", "dog">>, <<"class", "person">>, <<"id", "1">>>>}

CorrelationInputs ==
    {[boxes |-> [k \in 1..Len(bs) |-> [attributes |-> bs[k]]],
      skeletons |-> [k \in 1..Len(ss) |-> [attributes |-> ss[k], points |-> <<>>]]] :
        bs \in SeqsUpTo(AttributeLists, MaxBoxes),
        ss \in SeqsUpTo(AttributeLists, MaxSkeletons)}

InitCorrelation == Idle /\ ret = <<>> /\ call \in CorrelationInputs
CallCorrelation == Return(GetDetectedObjectList(call.boxes, call.skeletons, DenseConfig))
SpecCorrelation == InitCorrelation /\ [][CallCorrelation]_vars

\* ------------------------------------------------- claims on single functions

\* The integer a decimal truncates to, stated by its defining inequalities:
\* n lies between 0 and r, less than one away from r.
Truncated(r) ==
    CHOOSE n \in -200..200 :
        IF r[1] >= 0 THEN n * r[2] <= r[1] /\ r[1] < (n + 1) * r[2]
        ELSE (n - 1) * r[2] < r[1] /\ r[1] <= n * r[2]

LabelValue(p) == CHOOSE i \in 1..9 : Str(i) = p.label

\* C9 as stated: order_points_node_list returns, for every keypoint
\* collection, the keypoints sorted ascending by label in a sequence as long
\* as the input.
C9_SameLengthSorted ==
    ret # <<>> =>
        /\ Len(ret[1]) = Len(call.points)
        /\ \A k \in 1..(Len(ret[1]) - 1) : LabelValue(ret[1][k]) <= LabelValue(ret[1][k + 1])

\* C9 amended: with N the number of input keypoints, order_points_node_list
\* returns exactly the keypoints whose label is str(i) for some i in 1..N, each
\* once and unchanged, sorted ascending by label and, among equal labels, in
\* input order; so its length is the number of such keypoints, which is N when
\* the labels are exactly 1..N, and labels declared 3,1,2 give 1,2,3.
C9_InRangeSorted ==
    ret # <<>> =>
        LET points == call.points
            out == ret[1]
            N == Len(points)
            kept == {k \in 1..N : \E i \in 1..N : points[k].label = Str(i)}
        IN /\ {out[k].node : k \in DOMAIN out} = kept
           /\ Len(out) = Cardinality(kept)
           /\ \A k \in DOMAIN out : out[k] = points[out[k].node]
           /\ \A k \in 1..(Len(out) - 1) :
                \/ LabelValue(out[k]) < LabelValue(out[k + 1])
                \/ /\ LabelValue(out[k]) = LabelValue(out[k + 1])
                   /\ out[k].node < out[k + 1].node
           /\ ({LabelValue(points[k]) : k \in 1..N} = 1..N => Len(out) = N)
           /\ ([k \in 1..N |-> points[k].label] = <<"3", "1", "2">>
                 => [k \in DOMAIN out |-> out[k].label] = <<"1", "2", "3">>)

\* C9 witness: a list declared 3,1,2 was ordered, and came out 1,2,3.
C9_Witness ==
    /\ ret # <<>>
    /\ [k \in DOMAIN call.points |-> call.points[k].label] = <<"3", "1", "2">>
    /\ [k \in DOMAIN ret[1] |-> ret[1][k].node] = <<2, 3, 1>>

\* C8 as stated: the box converts to (cx/W, cy/H, w/W, h/H) with w = xbr-xtl,
\* h = ybr-ytl, cx = xtl + w/2, cy = ytl + h/2 computed from the declared
\* corner values (pixel floats).
C8_FromDeclaredCorners ==
    ret # <<>> =>
        LET b == call.box
            W == call.width
            H == call.height
        IN /\ RatEq(ret[1][1], <<b.xtl[1] * b.xbr[2] + b.xbr[1] * b.xtl[2],
                                 2 * b.xtl[2] * b.xbr[2] * W>>)
           /\ RatEq(ret[1][2], <<b.ytl[1] * b.ybr[2] + b.ybr[1] * b.ytl[2],
                                 2 * b.ytl[2] * b.ybr[2] * H>>)
           /\ RatEq(ret[1][3], <<b.xbr[1] * b.xtl[2] - b.xtl[1] * b.xbr[2],
                                 b.xtl[2] * b.xbr[2] * W>>)
           /\ RatEq(ret[1][4], <<b.ybr[1] * b.ytl[2] - b.ytl[1] * b.ybr[2],
                                 b.ytl[2] * b.ybr[2] * H>>)

\* C8 amended: with every declared corner first truncated toward zero to an
\* integer, the box converts to (cx/W, cy/H, w/W, h/H), cx and cy the midpoints
\* of the truncated corners and w, h their differences, with no clamping; the
\* box (10, 10, 30, 50) in a 100x200 image gives (0.20, 0.15, 0.20, 0.20).
C8_FromTruncatedCorners ==
    ret # <<>> =>
        LET b == call.box
            W == call.width
            H == call.height
            xtl == Truncated(b.xtl)
            ytl == Truncated(b.ytl)
            xbr == Truncated(b.xbr)
            ybr == Truncated(b.ybr)
        IN /\ Len(ret[1]) = 4
           /\ RatEq(ret[1][1], <<xtl + xbr, 2 * W>>)
           /\ RatEq(ret[1][2], <<ytl + ybr, 2 * H>>)
           /\ RatEq(ret[1][3], <<xbr - xtl, W>>)
           /\ RatEq(ret[1][4], <<ybr - ytl, H>>)
           /\ (/\ b = [xtl |-> <<10, 1>>, ytl |-> <<10, 1>>, xbr |-> <<30, 1>>, ybr |-> <<50, 1>>]
               /\ W = 100 /\ H = 200
               => /\ RatEq(ret[1][1], <<20, 100>>) /\ RatEq(ret[1][2], <<15, 100>>)
                  /\ RatEq(ret[1][3], <<20, 100>>) /\ RatEq(ret[1][4], <<20, 100>>))

\* C8 witness: a box with fractional corners 10.5 and 10.75 and the corner
\* 150 outside the 100-wide image was converted.
C8_Witness ==
    /\ ret # <<>>
    /\ call.box.xtl = <<21, 2>> /\ call.box.ytl = <<43, 4>>
    /\ call.box.xbr = <<150, 1>> /\ call.width = 100
    /\ RatEq(ret[1][3], <<140, 100>>)

\* C7 as stated: a non-occluded keypoint at (x, y) is written as the triple
\* (x/W, y/H, 2), an occluded one as (0, 0, 0); one triple per keypoint.
C7_FromDeclaredPoint ==
    ret # <<>> =>
        LET p == call.keypoint IN
        /\ Len(ret[1]) = 3
        /\ p.occluded = "1" => ret[1] = <<Zero, Zero, Zero>>
        /\ p.occluded # "1" =>
            /\ RatEq(ret[1][1], <<p.x[1], p.x[2] * call.width>>)
            /\ RatEq(ret[1][2], <<p.y[1], p.y[2] * call.height>>)
            /\ RatEq(ret[1][3], <<2, 1>>)

\* C7 amended: a non-occluded keypoint at (x, y) is written as the triple
\* (int(x)/W, int(y)/H, 2), x and y truncated toward zero to integers; an
\* occluded keypoint as (0, 0, 0) whatever its coordinates; exactly one
\* triple per keypoint.
C7_FromTruncatedPoint ==
    ret # <<>> =>
        LET p == call.keypoint IN
        /\ Len(ret[1]) = 3
        /\ p.occluded = "1" => \A k \in 1..3 : RatEq(ret[1][k], Zero)
        /\ p.occluded # "1" =>
            /\ RatEq(ret[1][1], <<Truncated(p.x), call.width>>)
            /\ RatEq(ret[1][2], <<Truncated(p.y), call.height>>)
            /\ RatEq(ret[1][3], <<2, 1>>)

\* C7 witness: the visible keypoint at (50.5, 20.5) was written as (50/W, 20/H, 2).
C7_Witness ==
    /\ ret # <<>>
    /\ call.keypoint.occluded = "0"
    /\ call.keypoint.x = <<101, 2>> /\ call.keypoint.y = <<41, 2>>
    /\ RatEq(ret[1][1], <<50, call.width>>)
    /\ RatEq(ret[1][2], <<20, call.height>>)

\* The skeletons whose key equals the box's key, as line 73 compares them
Matching(boxes, skeletons, b) ==
    {s \in DOMAIN skeletons : KeysMatch(boxes[b], skeletons[s])}

HasKey(node) ==
    /\ AttributeValue(node.attributes, "class") # <<>>
    /\ AttributeValue(node.attributes, "id") # <<>>

\* C1 as stated: get_detected_object_list yields one DetectedObject per box
\* that has a skeleton of the same key, pairing the box with the first such
\* skeleton in input order, and nothing for the other boxes; the list is in
\* box order. (Stated for the images whose boxes and skeletons all carry both
\* attributes, where the keys are plain (class, id) pairs.)
C1_OnePerBoxFirstSkeleton ==
    (/\ ret # <<>>
     /\ ~ret[1].error
     /\ \A b \in DOMAIN call.boxes : HasKey(call.boxes[b])
     /\ \A s \in DOMAIN call.skeletons : HasKey(call.skeletons[s])) =>
        LET list == ret[1].list
            correlated == {b \in DOMAIN call.boxes :
                              Matching(call.boxes, call.skeletons, b) # {}}
        IN /\ Len(list) = Cardinality(correlated)
           /\ \A k \in DOMAIN list :
                /\ list[k].box \in correlated
                /\ list[k].skeleton \in Matching(call.boxes, call.skeletons, list[k].box)
                /\ \A s \in Matching(call.boxes, call.skeletons, list[k].box) :
                        list[k].skeleton <= s
           /\ \A k \in 1..(Len(list) - 1) : list[k].box < list[k + 1].box

\* C2 as stated: no DetectedObject is produced from a box or from a skeleton
\* that lacks its class or its id attribute.
C2_NoObjectWithoutKey ==
    ret # <<>> =>
        \A k \in DOMAIN ret[1].list :
            /\ HasKey(call.boxes[ret[1].list[k].box])
            /\ HasKey(call.skeletons[ret[1].list[k].skeleton])

\* ------------------------------------------------------ claims on the script

\* Every complete line of every label file, with the object it was written for
Lines ==
    UNION {{[image |-> files[name].owner, n |-> n, tokens |-> files[name].rows[n]] :
                n \in 1..Len(files[name].rows)} : name \in DOMAIN files}

ObjectOf(line) ==
    GetDetectedObjectList(images[line.image].boxes, images[line.image].skeletons,
                          config).list[line.n]

\* The tokens of a line after the class id and the four box fields
KeypointSection(line) == SubSeq(line.tokens, 6, Len(line.tokens))

RegisteredIds == {config[k].id : k \in DOMAIN config}

\* C3 as stated: every written row has the same keypoint-block width, which
\* the registry alone determines: three tokens for each keypoint the registry
\* counts, whatever the object's class and skeleton.
C3_FixedWidth ==
    \A line \in Lines :
        Len(KeypointSection(line)) = 3 * Sum(AmountOfKeypoints(config), RegisteredIds)

LastDot(name) ==
    IF \E k \in DOMAIN name : name[k] = "."
    THEN CHOOSE k \in DOMAIN name :
            name[k] = "." /\ \A j \in (k + 1)..Len(name) : name[j] # "."
    ELSE 0

ExtensionReplaced(name) ==
    IF LastDot(name) = 0 THEN name
    ELSE SubSeq(name, 1, LastDot(name) - 1) \o <<".", "t", "x", "t">>

\* C5 as stated: after a complete run every image with at least one box has
\* its own output file, whose lines are exactly that image's rows in order;
\* no later image has overwritten it. (Stated for documents whose image names
\* still differ once their extensions are replaced.)
C5_OwnFilePerImage ==
    (/\ status = "done"
     /\ \A j, k \in DOMAIN images :
            j # k => ExtensionReplaced(images[j].name) # ExtensionReplaced(images[k].name)) =>
        \A k \in DOMAIN images :
            Len(images[k].boxes) > 0 =>
                \E name \in DOMAIN files :
                    /\ files[name].owner = k
                    /\ files[name].closed
                    /\ LET rows == WriteRows(Image(images[k], config), config)
                       IN files[name].rows = [n \in DOMAIN rows |-> rows[n].tokens]

\* C6: an image with zero boxes, with or without skeletons, is skipped when
\* the loop reaches it: the run goes on, and no file of ./out was created or
\* written for it.
C6_NoFileWithoutBoxes ==
    \A k \in DOMAIN images :
        Len(images[k].boxes) = 0 =>
            /\ \A name \in DOMAIN files : files[name].owner # k
            /\ k <= Len(outcomes) => outcomes[k] = "skipped"
            /\ k = Len(outcomes) => status # "aborted"

\* C6 witness: a run has ended normally after skipping an image that has a
\* skeleton and no box, and after writing a file for another image.
C6_Witness ==
    /\ status = "done"
    /\ \E k \in DOMAIN images :
        /\ Len(images[k].boxes) = 0
        /\ Len(images[k].skeletons) > 0
        /\ outcomes[k] = "skipped"
    /\ \E name \in DOMAIN files : files[name].closed

\* A box of the image is correlated with a skeleton, and its class name is
\* no key of the registry's classIdOf.
UnregisteredCorrelation(image_node) ==
    \E b \in DOMAIN image_node.boxes, s \in DOMAIN image_node.skeletons :
        LET class == AttributeValue(image_node.boxes[b].attributes, "class") IN
        /\ class # <<>>
        /\ class = AttributeValue(image_node.skeletons[s].attributes, "class")
        /\ AttributeValue(image_node.boxes[b].attributes, "id")
             = AttributeValue(image_node.skeletons[s].attributes, "id")
        /\ class[1] \notin {config[k].name : k \in DOMAIN config}

\* C10: an image in which a correlated box has an unregistered class name
\* ends the run with a lookup failure when the loop reaches it: the run never
\* completes, the loop does not go past that image, and no file is created or
\* written for that image or for any image after it.
C10_LookupFailureAborts ==
    \A k \in DOMAIN images :
        UnregisteredCorrelation(images[k]) =>
            /\ status # "done"
            /\ next_image <= k
            /\ \A name \in DOMAIN files : files[name].owner < k
            /\ k <= Len(outcomes) =>
                 /\ outcomes[k] = "KeyError classes_id"
                 /\ Len(outcomes) = k
                 /\ status = "aborted"

\* C10 witness: the first image's file was written, and the run aborted with
\* the lookup failure at the second image, whose first box is registered and
\* whose second box is not.
C10_Witness ==
    /\ status = "aborted"
    /\ outcomes = <<"written", "KeyError classes_id">>
    /\ Len(images[2].boxes) = 2
    /\ {files[name].owner : name \in DOMAIN files} = {1}

====
